---- MODULE Spec2Model ----
(***************************************************************************)
(* One chronyd process on OpenBSD, as seen by the driver sys_openbsd.c:    *)
(* the frequency callbacks, the hourly RTC synchronisation driven by the   *)
(* synchronisation-status callback, driver initialisation, the root drop   *)
(* and the pledge(2) system-call filter.  Kernel calls, the privileged     *)
(* operations (PRV), the configuration (CNF), the scheduler (SCH) and the  *)
(* local clock (LCL) are the environment: their results are the            *)
(* inputs of the actions.  LOG_FATAL terminates the process.               *)
(***************************************************************************)
EXTENDS Integers, Sequences, FiniteSets, TLC

VARIABLES
  context,         \* SYS_ProcessContext of this process
  cnf,             \* configuration: rtcsync, nts_certs, nts_processes
  euid,            \* effective user id
  alive,           \* FALSE once LOG_FATAL (or the kernel) ended the process
  pc,              \* "startup", "loop" (event loop running) or "finalised"
  registered,      \* the callbacks are registered with the generic driver
  adjtime_offset,  \* kernel: remaining adjtime() correction
  kernel_freq,     \* kernel: adjfreq() value, an int64_t
  last_rtc_sync,   \* static struct timespec last_rtc_sync (seconds)
  system_time,     \* kernel: the time of day as settimeofday() set it
  pledged,         \* kernel: pledge() is in force for this process
  promises,        \* kernel: the promises in force when pledged
  filter_calls,    \* history: entries into SYS_OpenBSD_EnableSystemCallFilter
  mark,            \* history: scheduler time of the latest RTC commit
                   \* attempt, or the raw time Initialise recorded if none
  attempts,        \* history: RTC commit attempts so far, up to MaxAttempts
  tracking,        \* history: the run has followed Schedule so far
  seen,            \* history: the synchronised reports of a tracked run
  last             \* history: what the most recent operation did

vars == <<context, cnf, euid, alive, pc, registered, adjtime_offset,
          kernel_freq, last_rtc_sync, system_time, pledged, promises,
          filter_calls, mark, attempts, tracking, seen, last>>

----------------------------------------------------------------------------
(* Program constants *)

MAX_FREQ == 100000

RTC_SYNC_INTERVAL == 60 * 60

\* (1000LL << 32) is FREQ_SCALE * 2^FREQ_SHIFT
FREQ_SCALE == 1000

FREQ_SHIFT == 32

SYS_MAIN_PROCESS == "SYS_MAIN_PROCESS"
SYS_PRIVOPS_HELPER == "SYS_PRIVOPS_HELPER"
SYS_NTSKE_HELPER == "SYS_NTSKE_HELPER"

\* clockid_t: the clock of the time of day, and another one
CLOCK_REALTIME == "CLOCK_REALTIME"
CLOCK_MONOTONIC == "CLOCK_MONOTONIC"

Contexts == {SYS_MAIN_PROCESS, SYS_PRIVOPS_HELPER, SYS_NTSKE_HELPER}

\* the pledge promises the driver names
Promises == {"stdio", "rpath", "wpath", "cpath", "inet", "unix", "dns",
             "sendfd", "recvfd", "settime"}

----------------------------------------------------------------------------
(* Bounds of the model *)

\* entries into the system-call filter in one run
MaxFilterCalls == 2

\* RTC commit attempts that are counted (the count stops there)
MaxAttempts == 2

\* |T2 - T1| of the two raw-time reads around the RTC commit is at most this
MaxSetTimeErr == 1

\* raw (scheduler) timestamps, in seconds
Times == {0, 1800, RTC_SYNC_INTERVAL, 3700}

\* the run that is recorded report by report: synchronised status reports
\* at these times, the driver having been initialised at the first of them
Schedule == <<0, 1800, 3700>>
ScheduleStart == Schedule[1]

\* filter levels a caller passes (0 means the filter is not enabled at all)
FilterLevels == {1, 2}

\* geteuid() == 0
RootUid == 0

\* the users root is dropped to
UserUids == {1000}

\* how long after the scheduler time of a report the raw time is read, in
\* seconds
RawLags == {0, 2}

\* clock ids clock_settime() is called with
ClockIds == {CLOCK_REALTIME, CLOCK_MONOTONIC}

\* nanoseconds of the times clock_settime() is called with
Nanoseconds == {0, 999, 1500, 999999999}

\* adjtime() corrections an earlier instance may have left behind
StaleOffsets == {0, 5}

----------------------------------------------------------------------------
(* Helpers *)

Abs(x) == IF x < 0 THEN -x ELSE x

NoRet == <<>>

\* one call of a collaborator or of the kernel: what was passed and what it
\* returned (0 for success and for void functions, -1 for failure)
Call(fn, arg, rc) == [fn |-> fn, arg |-> arg, rc |-> rc]

Rc(ok) == IF ok THEN 0 ELSE -1

\* the record kept of the most recent operation: its name, its inputs, the
\* calls it made in order, whether it ended in LOG_FATAL (or a kernel kill),
\* and the value it returned (NoRet: none)
Did(op, arg, calls, fatal, ret) ==
  [op |-> op, arg |-> arg, calls |-> calls, fatal |-> fatal, ret |-> ret]

CallsOf(rec, fn) == {i \in 1..Len(rec.calls) : rec.calls[i].fn = fn}

Called(rec, fn) == CallsOf(rec, fn) # {}

----------------------------------------------------------------------------
(* Arithmetic of int64_t and double.  Naturals are sequences of 16-bit      *)
(* limbs, the most significant first and not zero; the empty sequence is 0. *)

LimbBits == 16

Limb == 2 ^ LimbBits

Max(m, n) == IF m >= n THEN m ELSE n

Min(m, n) == IF m <= n THEN m ELSE n

ZeroLimbs(n) == [i \in 1..n |-> 0]

\* a without its leading zero limbs
Strip(a) ==
  LET nz == {i \in 1..Len(a) : a[i] # 0} IN
  IF nz = {} THEN <<>>
  ELSE SubSeq(a, CHOOSE i \in nz : \A j \in nz : i <= j, Len(a))

RECURSIVE MulAddStep(_, _, _, _, _)
MulAddStep(a, k, i, carry, acc) ==
  IF i = 0
    THEN IF carry = 0 THEN acc
         ELSE MulAddStep(a, k, 0, carry \div Limb, <<carry % Limb>> \o acc)
    ELSE MulAddStep(a, k, i - 1, (a[i] * k + carry) \div Limb,
                    <<(a[i] * k + carry) % Limb>> \o acc)

\* a * k + c, for k <= 2^15
MulAdd(a, k, c) == Strip(MulAddStep(a, k, Len(a), c, <<>>))

\* the natural n
NatOf(n) == MulAdd(<<>>, 1, n)

RECURSIVE DivModStep(_, _, _, _, _)
DivModStep(a, k, i, rem, acc) ==
  IF i > Len(a) THEN [q |-> Strip(acc), r |-> rem]
  ELSE DivModStep(a, k, i + 1, (rem * Limb + a[i]) % k,
                  Append(acc, (rem * Limb + a[i]) \div k))

\* quotient and remainder of a by k, for k <= 2^15
DivMod(a, k) == DivModStep(a, k, 1, 0, <<>>)

\* a * 2^n
ShiftLeft(a, n) ==
  IF a = <<>> THEN <<>>
  ELSE MulAdd(a, 2 ^ (n % LimbBits), 0) \o ZeroLimbs(n \div LimbBits)

\* a \div 2^n
ShiftRight(a, n) ==
  DivMod(SubSeq(a, 1, Len(a) - (n \div LimbBits)), 2 ^ (n % LimbBits)).q

\* the number of bits of a
BitLength(a) ==
  IF a = <<>> THEN 0
  ELSE (Len(a) - 1) * LimbBits
       + (CHOOSE n \in 1..LimbBits : 2 ^ (n - 1) <= a[1] /\ a[1] < 2 ^ n)

\* limb i of a counted from the least significant (0); 0 beyond its length
LimbAt(a, i) == IF i < Len(a) THEN a[Len(a) - i] ELSE 0

RECURSIVE AddStep(_, _, _, _, _)
AddStep(a, b, i, carry, acc) ==
  IF i >= Max(Len(a), Len(b))
    THEN (IF carry = 0 THEN acc ELSE <<carry>> \o acc)
    ELSE AddStep(a, b, i + 1, (LimbAt(a, i) + LimbAt(b, i) + carry) \div Limb,
                 <<(LimbAt(a, i) + LimbAt(b, i) + carry) % Limb>> \o acc)

NatAdd(a, b) == Strip(AddStep(a, b, 0, 0, <<>>))

RECURSIVE SubStep(_, _, _, _, _)
SubStep(a, b, i, borrow, acc) ==
  IF i >= Len(a) THEN acc
  ELSE IF LimbAt(a, i) - LimbAt(b, i) - borrow < 0
    THEN SubStep(a, b, i + 1, 1,
                 <<LimbAt(a, i) - LimbAt(b, i) - borrow + Limb>> \o acc)
    ELSE SubStep(a, b, i + 1, 0,
                 <<LimbAt(a, i) - LimbAt(b, i) - borrow>> \o acc)

\* a - b, for a >= b
NatSub(a, b) == Strip(SubStep(a, b, 0, 0, <<>>))

NatLeq(a, b) ==
  \/ Len(a) < Len(b)
  \/ /\ Len(a) = Len(b)
     /\ \/ a = b
        \/ LET d == CHOOSE i \in 1..Len(a) :
                      a[i] # b[i] /\ \A j \in 1..(i - 1) : a[j] = b[j]
           IN a[d] < b[d]

\* an int64_t: sign and magnitude; zero has no sign
Int64Zero == [neg |-> FALSE, mag |-> <<>>]

Int64Neg(i) == [neg |-> ~i.neg /\ i.mag # <<>>, mag |-> i.mag]

\* the bits of the significand of a double (IEEE 754 binary64)
SignificandBits == 53

\* a double is man * 2^exp with the sign neg: man has SignificandBits bits,
\* or is 0 (then exp is 0).  Frequencies are nowhere near the subnormal or
\* the infinite doubles.  RoundToDouble is the double nearest to a * 2^e,
\* ties to even; inexact says that the number to round is a little more
\* than a * 2^e.
RoundToDouble(neg, a, e, inexact) ==
  LET L == BitLength(a)
      drop == L - SignificandBits
  IN
  IF L = 0 THEN [neg |-> neg, man |-> <<>>, exp |-> 0]
  ELSE IF drop <= 0
    THEN [neg |-> neg, man |-> ShiftLeft(a, 0 - drop), exp |-> e + drop]
  ELSE
    LET keep == ShiftRight(a, drop)
        rest == NatSub(a, ShiftLeft(keep, drop))
        half == ShiftLeft(<<1>>, drop - 1)
        up == IF rest = half THEN inexact \/ keep[Len(keep)] % 2 = 1
                             ELSE ~NatLeq(rest, half)
        r == IF up THEN MulAdd(keep, 1, 1) ELSE keep
    IN IF BitLength(r) > SignificandBits
         THEN [neg |-> neg, man |-> ShiftRight(r, 1), exp |-> e + drop + 1]
         ELSE [neg |-> neg, man |-> r, exp |-> e + drop]

\* -x
DoubleNeg(x) == [x EXCEPT !.neg = ~x.neg]

\* x * (double)(k << n): the product, rounded once
DoubleTimes(x, k, n) ==
  RoundToDouble(x.neg, MulAdd(x.man, k, 0), x.exp + n, FALSE)

\* bits the quotient is computed with beyond those of the significand
GuardBits == 12

\* x / (double)(k << n), for k < 2^10: the quotient, rounded once
DoubleOver(x, k, n) ==
  LET d == DivMod(ShiftLeft(x.man, GuardBits), k) IN
  RoundToDouble(x.neg, d.q, x.exp - GuardBits - n, d.r # 0)

\* (int64_t)x: the fraction is dropped.  The doubles converted are below
\* 2^63 in magnitude.
DoubleToInt64(x) ==
  LET mag == IF x.exp >= 0 THEN ShiftLeft(x.man, x.exp)
             ELSE IF 0 - x.exp >= SignificandBits THEN <<>>
             ELSE ShiftRight(x.man, 0 - x.exp)
  IN [neg |-> x.neg /\ mag # <<>>, mag |-> mag]

\* (double)i
Int64ToDouble(i) == RoundToDouble(i.neg, i.mag, 0, FALSE)

\* the double of the whole number n
DoubleOfInt(n) == RoundToDouble(n < 0, NatOf(Abs(n)), 0, FALSE)

\* the natural with the hexadecimal digits h, four to a limb
HexNat(h) ==
  [i \in 1..(Len(h) \div 4) |->
     ((h[4 * i - 3] * 16 + h[4 * i - 2]) * 16 + h[4 * i - 1]) * 16 + h[4 * i]]

\* the double 1.h * 2^e, h the 13 hexadecimal digits of its fraction
Double(neg, h, e) ==
  [neg |-> neg, man |-> HexNat(<<0, 0, 1>> \o h), exp |-> e - 52]

----------------------------------------------------------------------------
(* Frequency callbacks *)

\* frequencies the generic driver asks for, in ppm: none is beyond MAX_FREQ,
\* the limit it is given at registration
PpmInputs == {DoubleOfInt(0 - MAX_FREQ), DoubleOfInt(0), DoubleOfInt(1)}

\* more of them, whole and not, from a fraction of a kernel unit up to
\* MAX_FREQ
FinePpmInputs ==
  PpmInputs \cup
  { DoubleOfInt(MAX_FREQ), DoubleOfInt(65536),
    Double(FALSE, <<3, 13, 12, 8, 13, 5, 13, 15, 7, 15, 1, 4, 0>>, 15),
    Double(TRUE, <<3, 1, 1, 6, 4, 6, 4, 8, 5, 3, 12, 14, 11>>, 16),
    Double(FALSE, <<8, 1, 14, 8, 8, 7, 15, 4, 6, 15, 3, 12, 0>>, 16),
    Double(TRUE, <<8, 6, 9, 15, 15, 15, 15, 15, 15, 15, 15, 15, 15>>, 16),
    Double(FALSE, <<5, 8, 4, 10, 10, 4, 15, 7, 7, 4, 11, 4, 0>>, 11),
    Double(TRUE, <<3, 3, 3, 7, 11, 1, 9, 9, 12, 15, 12, 12, 0>>, 11),
    Double(FALSE, <<15, 15, 15, 15, 15, 15, 15, 15, 15, 15, 15, 15, 15>>, 11),
    Double(FALSE, <<0, 0, 0, 0, 0, 0, 0, 0, 3, 5, 10, 15, 14>>, 11),
    Double(FALSE, <<15, 15, 15, 15, 15, 14, 5, 12, 9, 1, 13, 1, 5>>, 10),
    Double(FALSE, <<15, 4, 4, 0, 0, 0, 0, 0, 0, 0, 0, 0, 0>>, 9),
    Double(FALSE, <<8, 11, 0, 15, 12, 13, 3, 2, 15, 7, 0, 7, 10>>, 3),
    Double(FALSE, <<3, 3, 3, 3, 3, 3, 3, 3, 3, 3, 3, 3, 3>>, -2),
    Double(FALSE, <<9, 9, 9, 9, 9, 9, 9, 9, 9, 9, 9, 9, 10>>, -4),
    Double(TRUE, <<9, 9, 9, 9, 9, 9, 9, 9, 9, 9, 9, 9, 10>>, -4),
    Double(TRUE, <<4, 15, 8, 11, 5, 8, 8, 14, 3, 6, 8, 15, 1>>, -17),
    Double(FALSE, <<5, 1, 12, 5, 1, 12, 14, 3, 7, 1, 8, 14, 1>>, -42),
    Double(TRUE, <<0, 14, 3, 7, 4, 10, 4, 15, 8, 14, 0, 11, 4>>, -42),
    Double(FALSE, <<0, 6, 2, 4, 13, 13, 2, 15, 1, 10, 9, 15, 12>>, -42),
    Double(FALSE, <<0, 6, 2, 4, 13, 13, 2, 10, 11, 4, 11, 9, 6>>, -42),
    Double(FALSE, <<0, 0, 0, 0, 0, 0, 0, 0, 0, 0, 0, 0, 0>>, -42),
    Double(FALSE, <<12, 2, 5, 12, 2, 6, 8, 4, 9, 7, 6, 8, 2>>, -44) }

\* mutant of PpmToKernel: the sign is not inverted
PpmToKernel_NoNegation(freq_ppm) ==
  DoubleToInt64(DoubleTimes(freq_ppm, FREQ_SCALE, FREQ_SHIFT))

\* freq = -freq_ppm * (1000LL << 32): the product is a double, and the
\* assignment to the int64_t drops its fraction
PpmToKernel(freq_ppm) ==
  DoubleToInt64(DoubleTimes(DoubleNeg(freq_ppm), FREQ_SCALE, FREQ_SHIFT))

\* mutant of KernelToPpm: the division is done on the integers, the cast
\* coming too late
KernelToPpm_IntegerDivision(freq) ==
  Int64ToDouble([neg |-> Int64Neg(freq).neg,
                 mag |-> ShiftRight(DivMod(freq.mag, FREQ_SCALE).q,
                                    FREQ_SHIFT)])

\* (double)-freq / (1000LL << 32)
KernelToPpm(freq) ==
  DoubleOver(Int64ToDouble(Int64Neg(freq)), FREQ_SCALE, FREQ_SHIFT)

\* kernel: adjfreq() may hold a coarser value than the one it is given;
\* here, one without its low limb
KernelQuantised(freq) ==
  LET mag == ShiftLeft(ShiftRight(freq.mag, LimbBits), LimbBits) IN
  [neg |-> freq.neg /\ mag # <<>>, mag |-> mag]

\* read_frequency() on the kernel value kfreq: PRV_AdjustFreq(NULL, &freq),
\* LOG_FATAL when it fails, else the converted value
ReadFrequency(kfreq, get_ok) ==
  IF get_ok
    THEN [calls |-> <<Call("PRV_AdjustFreq", "get", 0)>>,
          fatal |-> FALSE, ret |-> KernelToPpm(kfreq)]
    ELSE [calls |-> <<Call("PRV_AdjustFreq", "get", -1),
                      Call("LOG_FATAL", "adjfreq() failed", 0)>>,
          fatal |-> TRUE, ret |-> NoRet]

\* mutant of SetFrequency: the result of the set call is not looked at
SetFrequency_NoCheck(freq_ppm, set_ok, kept, get_ok) ==
  LET freq == PpmToKernel(freq_ppm)
      kfreq == IF kept THEN freq ELSE KernelQuantised(freq)
      r == ReadFrequency(kfreq, get_ok)
  IN [calls |-> <<Call("PRV_AdjustFreq", freq, Rc(set_ok))>> \o r.calls,
      fatal |-> r.fatal, ret |-> r.ret, stored |-> set_ok, kfreq |-> kfreq]

\* mutant of SetFrequency: the value written is converted back and
\* returned, the kernel not being asked
SetFrequency_ReturnsWritten(freq_ppm, set_ok, kept, get_ok) ==
  LET freq == PpmToKernel(freq_ppm)
      kfreq == IF kept THEN freq ELSE KernelQuantised(freq)
  IN
  IF set_ok
    THEN LET r == ReadFrequency(freq, get_ok) IN
         [calls |-> <<Call("PRV_AdjustFreq", freq, 0)>> \o r.calls,
          fatal |-> r.fatal, ret |-> r.ret, stored |-> TRUE, kfreq |-> kfreq]
    ELSE [calls |-> <<Call("PRV_AdjustFreq", freq, -1),
                      Call("LOG_FATAL", "adjfreq() failed", 0)>>,
          fatal |-> TRUE, ret |-> NoRet, stored |-> FALSE, kfreq |-> kfreq]

\* set_frequency(freq_ppm): PRV_AdjustFreq(&freq, NULL), LOG_FATAL when it
\* fails, else read_frequency() on what the kernel now holds: the value
\* written (kept) or the coarser one
SetFrequency(freq_ppm, set_ok, kept, get_ok) ==
  LET freq == PpmToKernel(freq_ppm)
      kfreq == IF kept THEN freq ELSE KernelQuantised(freq)
  IN
  IF set_ok
    THEN LET r == ReadFrequency(kfreq, get_ok) IN
         [calls |-> <<Call("PRV_AdjustFreq", freq, 0)>> \o r.calls,
          fatal |-> r.fatal, ret |-> r.ret, stored |-> TRUE, kfreq |-> kfreq]
    ELSE [calls |-> <<Call("PRV_AdjustFreq", freq, -1),
                      Call("LOG_FATAL", "adjfreq() failed", 0)>>,
          fatal |-> TRUE, ret |-> NoRet, stored |-> FALSE, kfreq |-> kfreq]

\* set_frequency() on every frequency of the model, worked out once
SetFrequencyOf ==
  [freq_ppm \in FinePpmInputs, set_ok \in BOOLEAN, kept \in BOOLEAN,
   get_ok \in BOOLEAN |-> SetFrequency(freq_ppm, set_ok, kept, get_ok)]

\* the values the kernel holds
KernelFreqs ==
  {Int64Zero} \cup {SetFrequencyOf[freq_ppm, TRUE, kept, TRUE].kfreq :
                      freq_ppm \in FinePpmInputs, kept \in BOOLEAN}

\* read_frequency() on every one of them, worked out once
ReadFrequencyOf ==
  [kfreq \in KernelFreqs, get_ok \in BOOLEAN |-> ReadFrequency(kfreq, get_ok)]

\* the generic driver calls the callbacks it was given at registration
CallbacksCallable == alive /\ registered /\ pc # "finalised"

read_frequency ==
  /\ CallbacksCallable
  /\ \E get_ok \in BOOLEAN :
     \E r \in {ReadFrequencyOf[kernel_freq, get_ok]} :
         /\ last' = Did("read_frequency", <<>>, r.calls, r.fatal, r.ret)
         /\ alive' = ~r.fatal
  /\ UNCHANGED system_time
  /\ UNCHANGED <<context, cnf, euid, pc, registered, adjtime_offset,
                 kernel_freq, last_rtc_sync, pledged, promises,
                 filter_calls, mark, attempts, tracking, seen>>

\* set_frequency(freq_ppm) for one of the frequencies ppms; the kernel keeps
\* the value written, or not, as keeps says
SetFrequencyCall(ppms, keeps) ==
  /\ CallbacksCallable
  /\ \E freq_ppm \in ppms, set_ok \in BOOLEAN :
     \E kept \in (IF set_ok THEN keeps ELSE {TRUE}),
        get_ok \in (IF set_ok THEN BOOLEAN ELSE {TRUE}) :
     \E r \in {SetFrequencyOf[freq_ppm, set_ok, kept, get_ok]} :
         /\ last' = Did("set_frequency", <<freq_ppm>>, r.calls, r.fatal, r.ret)
         /\ alive' = ~r.fatal
         /\ kernel_freq' = IF r.stored THEN r.kfreq ELSE kernel_freq
  /\ UNCHANGED system_time
  /\ UNCHANGED <<context, cnf, euid, pc, registered, adjtime_offset,
                 last_rtc_sync, pledged, promises, filter_calls, mark,
                 attempts, tracking, seen>>

\* set_frequency() with the kernel of OpenBSD, which keeps the value written
set_frequency == SetFrequencyCall(PpmInputs, {TRUE})

\* set_frequency() for any of the frequencies, with a kernel that may hold a
\* coarser value
set_frequency_fine == SetFrequencyCall(FinePpmInputs, BOOLEAN)

----------------------------------------------------------------------------
(* RTC synchronisation *)

\* PRV_SetTime(CLOCK_REALTIME, &ts)
SetTimeCall(ts, rc) ==
  Call("PRV_SetTime", [clock |-> CLOCK_REALTIME, ts |-> ts], rc)

\* mutant of SynchroniseRtc: a failed PRV_SetTime is tried once more
SynchroniseRtc_Retry(ts, settime_ok, err) ==
  IF ~settime_ok
    THEN <<Call("LCL_ReadRawTime", ts, 0),
           SetTimeCall(ts, -1),
           SetTimeCall(ts, -1),
           Call("DEBUG_LOG", "clock_settime() failed", 0)>>
    ELSE <<Call("LCL_ReadRawTime", ts, 0),
           SetTimeCall(ts, 0),
           Call("LCL_ReadRawTime", ts + err, 0),
           Call("lcl_InvokeDispersionNotifyHandlers", Abs(err), 0)>>

\* mutant of SynchroniseRtc: err is passed on without fabs()
SynchroniseRtc_SignedErr(ts, settime_ok, err) ==
  IF ~settime_ok
    THEN <<Call("LCL_ReadRawTime", ts, 0),
           SetTimeCall(ts, -1),
           Call("DEBUG_LOG", "clock_settime() failed", 0)>>
    ELSE <<Call("LCL_ReadRawTime", ts, 0),
           SetTimeCall(ts, 0),
           Call("LCL_ReadRawTime", ts + err, 0),
           Call("lcl_InvokeDispersionNotifyHandlers", err, 0)>>

\* synchronise_rtc(): read the raw time ts, PRV_SetTime(CLOCK_REALTIME, &ts);
\* when that fails log and return; else read the raw time new_ts and pass
\* fabs(err) to the dispersion handlers, with err = new_ts - ts.  The
\* second read gives new_ts = ts + err.
SynchroniseRtc(ts, settime_ok, err) ==
  LET new_ts == ts + err
  IN
  IF ~settime_ok
    THEN <<Call("LCL_ReadRawTime", ts, 0),
           SetTimeCall(ts, -1),
           Call("DEBUG_LOG", "clock_settime() failed", 0)>>
    ELSE <<Call("LCL_ReadRawTime", ts, 0),
           SetTimeCall(ts, 0),
           Call("LCL_ReadRawTime", new_ts, 0),
           Call("lcl_InvokeDispersionNotifyHandlers", Abs(new_ts - ts), 0)>>

\* mutant of RtcSyncGated: && for ||
RtcSyncGated_And(synchronised, rtcsync) == ~synchronised /\ ~rtcsync

\* if (!synchronised || !CNF_GetRtcSync()) return;
RtcSyncGated(synchronised, rtcsync) == ~synchronised \/ ~rtcsync

\* mutant of RtcSyncDue: no rate limit
RtcSyncDue_Always(now, last_sync) == TRUE

\* mutant of RtcSyncDue: an interval of a minute
RtcSyncDue_Minute(now, last_sync) == Abs(now - last_sync) >= 60

\* mutant of RtcSyncDue: elapsed time counted in the forward direction only
RtcSyncDue_ForwardOnly(now, last_sync) == now - last_sync >= RTC_SYNC_INTERVAL

\* fabs(rtc_sync_elapsed) >= RTC_SYNC_INTERVAL, with
\* rtc_sync_elapsed = now - last_rtc_sync
RtcSyncDue(now, last_sync) == Abs(now - last_sync) >= RTC_SYNC_INTERVAL

\* mutant of LastRtcSyncAfter: the time is kept when the commit failed
LastRtcSyncAfter_OnSuccessOnly(now, last_sync, settime_ok) ==
  IF settime_ok THEN now ELSE last_sync

\* last_rtc_sync after the call of synchronise_rtc(): last_rtc_sync = now,
\* whatever synchronise_rtc() did
LastRtcSyncAfter(now, last_sync, settime_ok) == now

\* synchronise_rtc() is reached in this report
RtcSyncReached(synchronised, now) ==
  ~RtcSyncGated(synchronised, cnf.rtcsync) /\ RtcSyncDue(now, last_rtc_sync)

\* what PRV_SetTime may answer, and new_ts - ts, where they are looked at
SetTimeResults(synchronised, now) ==
  IF RtcSyncReached(synchronised, now) THEN BOOLEAN ELSE {TRUE}

SetTimeErrs(synchronised, now) ==
  IF RtcSyncReached(synchronised, now)
    THEN (0 - MaxSetTimeErr)..MaxSetTimeErr ELSE {0}

\* the raw time synchronise_rtc() reads first: the scheduler time of the
\* report or later
RawTimes(synchronised, now) ==
  IF RtcSyncReached(synchronised, now)
    THEN {now + lag : lag \in RawLags} ELSE {now}

\* set_sync_status(synchronised, est_error, max_error); now is the raw time
\* SCH_GetLastEventTime() gives
set_sync_status ==
  /\ CallbacksCallable
  /\ \E synchronised \in BOOLEAN, now \in Times :
     \* the results of PRV_SetTime and of the raw-time reads matter only
     \* when synchronise_rtc() is called
     \E settime_ok \in SetTimeResults(synchronised, now),
        err \in SetTimeErrs(synchronised, now),
        ts \in RawTimes(synchronised, now) :
       LET arg == [synchronised |-> synchronised, now |-> now]
           gated == RtcSyncGated(synchronised, cnf.rtcsync)
           due == ~gated /\ RtcSyncDue(now, last_rtc_sync)
           calls ==
             IF gated THEN <<>>
             ELSE <<Call("SCH_GetLastEventTime", now, 0)>> \o
                  (IF due THEN SynchroniseRtc(ts, settime_ok, err) \o
                               <<Call("DEBUG_LOG", "rtc synchronised", 0)>>
                          ELSE <<>>)
       IN
         /\ last' = Did("set_sync_status", arg, calls, FALSE, NoRet)
         /\ last_rtc_sync' =
              IF due THEN LastRtcSyncAfter(now, last_rtc_sync, settime_ok)
                     ELSE last_rtc_sync
         /\ mark' = IF due THEN now ELSE mark
         /\ attempts' = IF due /\ attempts < MaxAttempts THEN attempts + 1
                                                         ELSE attempts
         /\ IF ~synchronised THEN UNCHANGED <<tracking, seen>>
            ELSE IF tracking /\ Len(seen) < Len(Schedule)
                             /\ now = Schedule[Len(seen) + 1]
              THEN /\ seen' = Append(seen, [now |-> now, fired |-> due,
                                            sync_after |-> last_rtc_sync'])
                   /\ UNCHANGED tracking
              ELSE /\ seen' = <<>>
                   /\ tracking' = FALSE
  /\ UNCHANGED system_time
  /\ UNCHANGED <<context, cnf, euid, alive, pc, registered, adjtime_offset,
                 kernel_freq, pledged, promises, filter_calls>>

----------------------------------------------------------------------------
(* clock_settime() *)

\* struct timespec and struct timeval
Timespec(sec, nsec) == [tv_sec |-> sec, tv_nsec |-> nsec]

Timeval(sec, usec) == [tv_sec |-> sec, tv_usec |-> usec]

\* UTI_TimespecToTimeval(now, &tv): microseconds for nanoseconds
TimespecToTimeval(ts) == Timeval(ts.tv_sec, ts.tv_nsec \div 1000)

\* mutant of ClockSettime: the clock id is not looked at
ClockSettime_AnyClock(clock, now, rc, time) ==
  [calls |-> <<Call("UTI_TimespecToTimeval", now, 0),
               Call("settimeofday", TimespecToTimeval(now), rc)>>,
   ret |-> rc,
   time |-> IF rc = 0 THEN TimespecToTimeval(now) ELSE time]

\* clock_settime(clock, now) with the time of day at time: -1 for a clock
\* other than CLOCK_REALTIME; else settimeofday(&tv, NULL), which answers
\* rc, and its result
ClockSettime(clock, now, rc, time) ==
  IF clock # CLOCK_REALTIME
    THEN [calls |-> <<>>, ret |-> -1, time |-> time]
  ELSE [calls |-> <<Call("UTI_TimespecToTimeval", now, 0),
                    Call("settimeofday", TimespecToTimeval(now), rc)>>,
        ret |-> rc,
        \* kernel: a settimeofday() that fails sets nothing
        time |-> IF rc = 0 THEN TimespecToTimeval(now) ELSE time]

\* clock_settime(clock, now), as PRV_SetTime() calls it
clock_settime ==
  /\ alive
  /\ \E clock \in ClockIds, sec \in Times, nsec \in Nanoseconds :
     \E rc \in (IF clock = CLOCK_REALTIME THEN {0, -1} ELSE {0}) :
       LET now == Timespec(sec, nsec)
           r == ClockSettime(clock, now, rc, system_time)
       IN
         /\ last' = Did("clock_settime", [clock |-> clock, now |-> now],
                        r.calls, FALSE, r.ret)
         /\ system_time' = r.time
  /\ UNCHANGED <<context, cnf, euid, alive, pc, registered, adjtime_offset,
                 kernel_freq, last_rtc_sync, pledged, promises, filter_calls,
                 mark, attempts, tracking, seen>>

----------------------------------------------------------------------------
(* Driver lifecycle *)

\* get_clockinfo(): sysctl(KERN_CLOCKRATE), LOG_FATAL when it fails
GetClockinfo(sysctl_ok) ==
  IF sysctl_ok
    THEN [calls |-> <<Call("sysctl", "KERN_CLOCKRATE", 0)>>, fatal |-> FALSE]
    ELSE [calls |-> <<Call("sysctl", "KERN_CLOCKRATE", -1),
                      Call("LOG_FATAL", "sysctl() failed", 0)>>,
          fatal |-> TRUE]

\* mutant of ResetAdjtimeOffset: the correction left is halved, not cleared
ResetAdjtimeOffset_Halved(offset, adjtime_ok) ==
  IF adjtime_ok
    THEN [calls |-> <<Call("PRV_AdjustTime", offset \div 2, 0)>>,
          fatal |-> FALSE, offset |-> offset \div 2]
    ELSE [calls |-> <<Call("PRV_AdjustTime", offset \div 2, -1),
                      Call("LOG_FATAL", "adjtime() failed", 0)>>,
          fatal |-> TRUE, offset |-> offset]

\* reset_adjtime_offset() with the kernel's remaining correction offset:
\* PRV_AdjustTime(&delta, NULL) with delta zeroed, LOG_FATAL when it fails;
\* the kernel's remaining correction is then delta
ResetAdjtimeOffset(offset, adjtime_ok) ==
  LET delta == 0 IN
  IF adjtime_ok
    THEN [calls |-> <<Call("PRV_AdjustTime", delta, 0)>>,
          fatal |-> FALSE, offset |-> delta]
    ELSE [calls |-> <<Call("PRV_AdjustTime", delta, -1),
                      Call("LOG_FATAL", "adjtime() failed", 0)>>,
          fatal |-> TRUE, offset |-> offset]

\* mutant of Initialise: a failed reset_adjtime_offset() does not stop it
Initialise_ResetUnchecked(sysctl_ok, adjtime_ok, raw, offset) ==
  LET ci == GetClockinfo(sysctl_ok)
      rs == ResetAdjtimeOffset(offset, adjtime_ok)
  IN
  IF ci.fatal
    THEN [calls |-> ci.calls, fatal |-> TRUE, offset |-> offset,
          done |-> FALSE]
  ELSE [calls |-> ci.calls \o <<Call("PRV_AdjustTime", 0, Rc(adjtime_ok))>>
                  \o <<Call("LCL_ReadRawTime", raw, 0),
                       Call("SYS_Generic_CompleteFreqDriver", MAX_FREQ, 0)>>,
        fatal |-> FALSE, offset |-> rs.offset, done |-> TRUE]

\* SYS_OpenBSD_Initialise() with the kernel's remaining correction offset
\* and the raw time raw: get_clockinfo(), reset_adjtime_offset(),
\* LCL_ReadRawTime(&last_rtc_sync), then the registration of the callbacks;
\* LOG_FATAL ends it where it is called.  done: the callbacks are registered.
Initialise(sysctl_ok, adjtime_ok, raw, offset) ==
  LET ci == GetClockinfo(sysctl_ok)
      rs == ResetAdjtimeOffset(offset, adjtime_ok)
  IN
  IF ci.fatal
    THEN [calls |-> ci.calls, fatal |-> TRUE, offset |-> offset,
          done |-> FALSE]
  ELSE IF rs.fatal
    THEN [calls |-> ci.calls \o rs.calls, fatal |-> TRUE,
          offset |-> rs.offset, done |-> FALSE]
  ELSE [calls |-> ci.calls \o rs.calls \o
                  <<Call("LCL_ReadRawTime", raw, 0),
                    Call("SYS_Generic_CompleteFreqDriver", MAX_FREQ, 0)>>,
        fatal |-> FALSE, offset |-> rs.offset, done |-> TRUE]

\* SYS_OpenBSD_Initialise().  It runs in the main process, once.
SYS_OpenBSD_Initialise ==
  /\ alive /\ ~registered /\ pc = "startup" /\ context = SYS_MAIN_PROCESS
  /\ \E sysctl_ok \in BOOLEAN :
     \E adjtime_ok \in (IF sysctl_ok THEN BOOLEAN ELSE {TRUE}),
        raw \in (IF sysctl_ok THEN Times ELSE {0}) :
       LET r == Initialise(sysctl_ok, adjtime_ok, raw, adjtime_offset) IN
         /\ last' = Did("SYS_OpenBSD_Initialise", <<>>, r.calls, r.fatal,
                        NoRet)
         /\ alive' = ~r.fatal
         /\ adjtime_offset' = r.offset
         /\ registered' = r.done
         /\ last_rtc_sync' = IF r.done THEN raw ELSE last_rtc_sync
         /\ mark' = IF r.done THEN raw ELSE mark
         /\ tracking' = IF r.done THEN raw = ScheduleStart ELSE tracking
  /\ UNCHANGED system_time
  /\ UNCHANGED <<context, cnf, euid, pc, kernel_freq, pledged, promises,
                 filter_calls, attempts, seen>>

\* SYS_OpenBSD_Finalise(): SYS_Generic_Finalise()
SYS_OpenBSD_Finalise ==
  /\ alive /\ registered /\ pc # "finalised"
  /\ last' = Did("SYS_OpenBSD_Finalise", <<>>,
                 <<Call("SYS_Generic_Finalise", 0, 0)>>, FALSE, NoRet)
  /\ pc' = "finalised"
  /\ UNCHANGED system_time
  /\ UNCHANGED <<context, cnf, euid, alive, registered, adjtime_offset,
                 kernel_freq, last_rtc_sync, pledged, promises, filter_calls,
                 mark, attempts, tracking, seen>>

\* mutant of DropRoot: every process starts a privileged helper
DropRoot_HelperAlways(ctx, uid) ==
  <<Call("PRV_StartHelper", 0, 0), Call("UTI_DropRoot", uid, 0)>>

\* if (context == SYS_MAIN_PROCESS) PRV_StartHelper();
\* UTI_DropRoot(uid, gid);
DropRoot(ctx, uid) ==
  (IF ctx = SYS_MAIN_PROCESS THEN <<Call("PRV_StartHelper", 0, 0)>>
                             ELSE <<>>)
  \o <<Call("UTI_DropRoot", uid, 0)>>

\* SYS_OpenBSD_DropRoot(uid, gid, context, clock_control): the main process
\* starts the privileged helper first; then UTI_DropRoot(uid, gid)
SYS_OpenBSD_DropRoot ==
  /\ alive /\ euid = RootUid /\ pc = "startup"
  /\ \E uid \in UserUids :
       /\ last' = Did("SYS_OpenBSD_DropRoot", <<uid>>,
                      DropRoot(context, uid), FALSE, NoRet)
       /\ euid' = uid
  /\ UNCHANGED system_time
  /\ UNCHANGED <<context, cnf, alive, pc, registered, adjtime_offset,
                 kernel_freq, last_rtc_sync, pledged, promises, filter_calls,
                 mark, attempts, tracking, seen>>

----------------------------------------------------------------------------
(* System-call filter *)

\* CNF_GetNtsServerCertAndKeyFiles(&certs, &keys) > 0 &&
\* CNF_GetNtsServerProcesses() > 0
NtsHelpersConfigured(c) == c.nts_certs > 0 /\ c.nts_processes > 0

\* mutant of PledgePromises: the main process always asks for settime
PledgePromises_SettimeAlways(ctx, nts_helpers, root) ==
  IF ctx = SYS_MAIN_PROCESS THEN
    IF nts_helpers
      THEN {"stdio", "rpath", "wpath", "cpath", "inet", "unix", "dns",
            "sendfd", "settime"}
      ELSE {"stdio", "rpath", "wpath", "cpath", "inet", "unix", "dns",
            "settime"}
  ELSE IF ctx = SYS_PRIVOPS_HELPER THEN {"stdio", "settime"}
  ELSE {"stdio", "recvfd"}

\* mutant of PledgePromises: the NTS-KE helper gives nothing up
PledgePromises_HelperUnfiltered(ctx, nts_helpers, root) ==
  IF ctx = SYS_MAIN_PROCESS THEN
    {"stdio", "rpath", "wpath", "cpath", "inet", "unix", "dns"}
      \cup (IF nts_helpers THEN {"sendfd"} ELSE {})
      \cup (IF root THEN {"settime"} ELSE {})
  ELSE IF ctx = SYS_PRIVOPS_HELPER THEN {"stdio", "settime"}
  ELSE Promises

\* the promise string handed to pledge(), as the set of its words
PledgePromises(ctx, nts_helpers, root) ==
  IF ctx = SYS_MAIN_PROCESS THEN
    IF nts_helpers THEN
      IF root
        THEN {"stdio", "rpath", "wpath", "cpath", "inet", "unix", "dns",
              "sendfd", "settime"}
        ELSE {"stdio", "rpath", "wpath", "cpath", "inet", "unix", "dns",
              "sendfd"}
    ELSE
      IF root
        THEN {"stdio", "rpath", "wpath", "cpath", "inet", "unix", "dns",
              "settime"}
        ELSE {"stdio", "rpath", "wpath", "cpath", "inet", "unix", "dns"}
  ELSE IF ctx = SYS_PRIVOPS_HELPER THEN {"stdio", "settime"}
  ELSE {"stdio", "recvfd"}

\* mutant of UnsupportedLevel: only levels below 1 are refused
UnsupportedLevel_Below(level, ctx) == level < 1 /\ ctx = SYS_MAIN_PROCESS

\* if (level != 1 && context == SYS_MAIN_PROCESS) LOG_FATAL(...)
UnsupportedLevel(level, ctx) == level # 1 /\ ctx = SYS_MAIN_PROCESS

\* kernel: pledge() can only reduce what is permitted; a request for a
\* promise that was given up fails
PledgePermits(req) == ~pledged \/ req \subseteq promises

\* kernel: what the process may do
Permitted == IF pledged THEN promises ELSE Promises

\* mutant of PledgeFailed: the result of pledge() is not looked at
PledgeFailed_Ignored(rc) == FALSE

\* if (pledge(...) < 0) LOG_FATAL("pledge() failed")
PledgeFailed(rc) == rc < 0

\* SYS_OpenBSD_EnableSystemCallFilter(level, context).  The kernel refuses
\* (rc -1) a request it does not permit and may refuse any other; when it
\* accepts (rc 0) the requested promises are in force.
SYS_OpenBSD_EnableSystemCallFilter ==
  /\ alive /\ filter_calls < MaxFilterCalls
  /\ filter_calls' = filter_calls + 1
  /\ \E level \in FilterLevels, rc \in {0, -1} :
       LET req == PledgePromises(context, NtsHelpersConfigured(cnf),
                                 euid = RootUid)
           arg == [level |-> level, context |-> context]
       IN
       IF UnsupportedLevel(level, context) THEN
         /\ last' = Did("SYS_OpenBSD_EnableSystemCallFilter", arg,
                        <<Call("LOG_FATAL", "Unsupported filter level", 0)>>,
                        TRUE, NoRet)
         /\ alive' = FALSE
         /\ UNCHANGED <<pledged, promises>>
       ELSE
         /\ rc = 0 => PledgePermits(req)
         /\ pledged' = (pledged \/ rc = 0)
         /\ promises' = IF rc = 0 THEN req ELSE promises
         /\ IF PledgeFailed(rc)
              THEN /\ last' = Did("SYS_OpenBSD_EnableSystemCallFilter", arg,
                                  <<Call("pledge", req, rc),
                                    Call("LOG_FATAL", "pledge() failed", 0)>>,
                                  TRUE, NoRet)
                   /\ alive' = FALSE
              ELSE /\ last' = Did("SYS_OpenBSD_EnableSystemCallFilter", arg,
                                  <<Call("pledge", req, rc),
                                    Call("LOG", "Loaded pledge filter", 0)>>,
                                  FALSE, NoRet)
                   /\ UNCHANGED alive
  /\ UNCHANGED system_time
  /\ UNCHANGED <<context, cnf, euid, pc, registered, adjtime_offset,
                 kernel_freq, last_rtc_sync, mark, attempts, tracking, seen>>

\* kernel: the process attempts an operation that needs promise p; a pledged
\* process that lacks p is killed
KernelSyscall ==
  /\ alive
  /\ \E p \in Promises :
       IF p \in Permitted
         THEN /\ last' = Did("syscall", <<p>>, <<>>, FALSE, <<"done">>)
              /\ UNCHANGED alive
         ELSE /\ last' = Did("syscall", <<p>>, <<>>, TRUE, <<"killed">>)
              /\ alive' = FALSE
  /\ UNCHANGED system_time
  /\ UNCHANGED <<context, cnf, euid, pc, registered, adjtime_offset,
                 kernel_freq, last_rtc_sync, pledged, promises, filter_calls,
                 mark, attempts, tracking, seen>>

----------------------------------------------------------------------------
(* The process *)

Configurations ==
  [rtcsync : BOOLEAN, nts_certs : 0..1, nts_processes : 0..1]

Init ==
  /\ context \in Contexts
  /\ cnf \in Configurations
  /\ euid \in {RootUid} \cup UserUids
  /\ alive = TRUE
  /\ pc = "startup"
  /\ registered = FALSE
  /\ adjtime_offset \in StaleOffsets
  /\ kernel_freq = Int64Zero
  /\ last_rtc_sync = 0
  /\ system_time = Timeval(0, 0)
  /\ pledged = FALSE
  /\ promises = {}
  /\ filter_calls = 0
  /\ mark = -1
  /\ attempts = 0
  /\ tracking = FALSE
  /\ seen = <<>>
  /\ last = Did("start", <<>>, <<>>, FALSE, NoRet)

\* the operations, called in any order the driver itself admits
Next ==
  \/ SYS_OpenBSD_Initialise
  \/ read_frequency
  \/ set_frequency
  \/ set_sync_status
  \/ SYS_OpenBSD_Finalise
  \/ SYS_OpenBSD_DropRoot
  \/ SYS_OpenBSD_EnableSystemCallFilter
  \/ KernelSyscall

Spec == Init /\ [][Next]_vars

----------------------------------------------------------------------------
(* The callers' order: start-up (initialisation, root drop, the filter at    *)
(* most once, and not at all when the filter level is 0), then the event    *)
(* loop in which the callbacks run.                                         *)

\* mutant of MayEnableFilter: the filter is enabled at any time
MayEnableFilter_Anytime == TRUE

\* the filter is enabled during start-up, once
MayEnableFilter == pc = "startup" /\ filter_calls = 0

\* the main process enters its event loop with the driver initialised
StartMainLoop ==
  /\ alive /\ pc = "startup"
  /\ context = SYS_MAIN_PROCESS => registered
  /\ pc' = "loop"
  /\ last' = Did("SCH_MainLoop", <<>>, <<>>, FALSE, NoRet)
  /\ UNCHANGED system_time
  /\ UNCHANGED <<context, cnf, euid, alive, registered, adjtime_offset,
                 kernel_freq, last_rtc_sync, pledged, promises, filter_calls,
                 mark, attempts, tracking, seen>>

LifecycleNext ==
  \/ SYS_OpenBSD_Initialise
  \/ SYS_OpenBSD_DropRoot
  \/ (MayEnableFilter /\ SYS_OpenBSD_EnableSystemCallFilter)
  \/ StartMainLoop
  \/ (pc = "loop" /\ read_frequency)
  \/ (pc = "loop" /\ set_frequency)
  \/ (pc = "loop" /\ set_sync_status)
  \/ (pc = "loop" /\ SYS_OpenBSD_Finalise)
  \/ KernelSyscall

SpecLifecycle == Init /\ [][LifecycleNext]_vars

----------------------------------------------------------------------------
(* The frequency callbacks on their own: the main process, initialised at   *)
(* raw time 0, has entered its event loop, and the generic driver reads and *)
(* sets the frequency.                                                      *)

FreqInit ==
  /\ context = SYS_MAIN_PROCESS
  /\ cnf = [rtcsync |-> FALSE, nts_certs |-> 0, nts_processes |-> 0]
  /\ euid = RootUid
  /\ alive = TRUE
  /\ pc = "loop"
  /\ registered = TRUE
  /\ adjtime_offset = 0
  /\ kernel_freq = Int64Zero
  /\ last_rtc_sync = 0
  /\ system_time = Timeval(0, 0)
  /\ pledged = FALSE
  /\ promises = {}
  /\ filter_calls = 0
  /\ mark = 0
  /\ attempts = 0
  /\ tracking = TRUE
  /\ seen = <<>>
  /\ last = Did("SCH_MainLoop", <<>>, <<>>, FALSE, NoRet)

FreqNext ==
  \/ read_frequency
  \/ set_frequency_fine

SpecFreq == FreqInit /\ [][FreqNext]_vars

----------------------------------------------------------------------------
(* clock_settime() on its own: a process of any kind, in its event loop,    *)
(* has PRV_SetTime() call it.                                               *)

ClockInit ==
  /\ context \in {SYS_MAIN_PROCESS, SYS_PRIVOPS_HELPER}
  /\ cnf = [rtcsync |-> TRUE, nts_certs |-> 0, nts_processes |-> 0]
  /\ euid = RootUid
  /\ alive = TRUE
  /\ pc = "loop"
  /\ registered = (context = SYS_MAIN_PROCESS)
  /\ adjtime_offset = 0
  /\ kernel_freq = Int64Zero
  /\ last_rtc_sync = 0
  /\ system_time = Timeval(0, 0)
  /\ pledged = FALSE
  /\ promises = {}
  /\ filter_calls = 0
  /\ mark = 0
  /\ attempts = 0
  /\ tracking = FALSE
  /\ seen = <<>>
  /\ last = Did("SCH_MainLoop", <<>>, <<>>, FALSE, NoRet)

ClockNext == clock_settime

SpecClock == ClockInit /\ [][ClockNext]_vars

----------------------------------------------------------------------------
(* Properties *)

EnableFilterOp == "SYS_OpenBSD_EnableSystemCallFilter"

\* rec is a status report that called PRV_SetTime
CommitAttempted(rec) ==
  rec.op = "set_sync_status" /\ Called(rec, "PRV_SetTime")

\* rec is a status report whose PRV_SetTime failed
CommitFailed(rec) ==
  /\ rec.op = "set_sync_status"
  /\ \E i \in CallsOf(rec, "PRV_SetTime") : rec.calls[i].rc < 0

\* rec is a status report whose PRV_SetTime succeeded
CommitSucceeded(rec) ==
  /\ rec.op = "set_sync_status"
  /\ \E i \in CallsOf(rec, "PRV_SetTime") : rec.calls[i].rc = 0

\* C1, as claimed: a failed commit in a due, synchronised report leaves
\* last_rtc_sync as it was, and (initialisation apart) last_rtc_sync changes
\* only in a report whose commit succeeded.
C1_KeptOnFailure ==
  [][/\ CommitFailed(last') => last_rtc_sync' = last_rtc_sync
     /\ last_rtc_sync' # last_rtc_sync =>
          CommitSucceeded(last') \/ last'.op = "SYS_OpenBSD_Initialise"
    ]_vars

\* C1, amended: a failed commit in a due, synchronised report still sets
\* last_rtc_sync to the scheduler time of that report, as a successful one
\* does; initialisation apart, last_rtc_sync changes only in a report that
\* attempted a commit.
C1_SetOnEveryAttempt ==
  [][/\ CommitFailed(last') => last_rtc_sync' = last'.arg.now
     /\ CommitSucceeded(last') => last_rtc_sync' = last'.arg.now
     /\ last_rtc_sync' # last_rtc_sync =>
          CommitAttempted(last') \/ last'.op = "SYS_OpenBSD_Initialise"
    ]_vars

\* C1 witness: a commit has just failed and last_rtc_sync is the time of
\* that report
C1_Witness ==
  /\ CommitFailed(last)
  /\ last.arg.synchronised /\ cnf.rtcsync
  /\ last_rtc_sync = last.arg.now

\* C2: every RTC commit attempt is made at a scheduler time at least
\* RTC_SYNC_INTERVAL away from the scheduler time of the attempt before it,
\* or, for the first attempt, from the raw time recorded by initialisation.
C2_AttemptsAnIntervalApart ==
  [][CommitAttempted(last') =>
       /\ mark >= 0
       /\ Abs(last'.arg.now - mark) >= RTC_SYNC_INTERVAL
    ]_vars

\* C2 witness: a second commit attempt has just been made
C2_Witness ==
  /\ CommitAttempted(last)
  /\ attempts = 2
  /\ mark = last.arg.now

\* C3: a status report that is not synchronised, or that comes with RTC
\* synchronisation disabled, calls neither PRV_SetTime nor the dispersion
\* handlers and leaves last_rtc_sync unchanged, whatever the elapsed time.
C3_GatedReportDoesNothing ==
  [][(/\ last'.op = "set_sync_status"
      /\ (~last'.arg.synchronised \/ ~cnf.rtcsync)) =>
       /\ ~Called(last', "PRV_SetTime")
       /\ ~Called(last', "lcl_InvokeDispersionNotifyHandlers")
       /\ last_rtc_sync' = last_rtc_sync
    ]_vars

\* C3 witness: an unsynchronised report came an interval or more after the
\* last synchronisation, with RTC synchronisation enabled
C3_Witness ==
  /\ last.op = "set_sync_status"
  /\ ~last.arg.synchronised
  /\ cnf.rtcsync
  /\ Abs(last.arg.now - last_rtc_sync) >= RTC_SYNC_INTERVAL
  /\ ~Called(last, "PRV_SetTime")

\* what the reports of the tracked run did: for each, whether a commit was
\* attempted and last_rtc_sync after it
RunMatches(fired, sync_after) ==
  \A i \in 1..Len(seen) :
    /\ seen[i].now = Schedule[i]
    /\ seen[i].fired = fired[i]
    /\ seen[i].sync_after = sync_after[i]

\* C4, as claimed: initialised at 0 with RTC synchronisation enabled, the
\* synchronised reports at 0, 1800 and 3700 fire, do not fire, fire, and the
\* reports at 0 and 3700 set last_rtc_sync to 0 and 3700.
C4_FirstReportFires ==
  (tracking /\ cnf.rtcsync) =>
    RunMatches(<<TRUE, FALSE, TRUE>>, <<0, 0, 3700>>)

\* C4, amended: initialised at 0 with RTC synchronisation enabled, the
\* synchronised reports at 0 and at 1800 do not fire and leave last_rtc_sync
\* at 0 (the value initialisation recorded); the report at 3700 fires and
\* sets last_rtc_sync to 3700.
C4_OnlyThirdReportFires ==
  (tracking /\ cnf.rtcsync) =>
    RunMatches(<<FALSE, FALSE, TRUE>>, <<0, 0, 3700>>)

\* C4 witness: the three reports of the schedule have been made
C4_Witness ==
  /\ tracking /\ cnf.rtcsync
  /\ Len(seen) = Len(Schedule)
  /\ last_rtc_sync = 3700

\* the table of capability sets: per role, with the NTS-KE helper pool and
\* root additions of the main process
CapabilityTable(role, nts_pool, root) ==
  IF role = SYS_MAIN_PROCESS
    THEN {"stdio", "rpath", "wpath", "cpath", "inet", "unix", "dns"}
           \cup (IF nts_pool THEN {"sendfd"} ELSE {})
           \cup (IF root THEN {"settime"} ELSE {})
  ELSE IF role = SYS_PRIVOPS_HELPER THEN {"stdio", "settime"}
  ELSE {"stdio", "recvfd"}

\* at least one certificate/key pair and a helper count above zero
NtsPoolConfigured == cnf.nts_certs >= 1 /\ cnf.nts_processes > 0

\* the table's set for this process as it is now
TableSet == CapabilityTable(context, NtsPoolConfigured, euid = RootUid)

\* C5: after the filter was enabled at level 1, the promises in force are
\* the table's set for the role, the NTS-KE pool configuration and the
\* privilege of the process.
C5_InstalledSetIsTable ==
  (last.op = EnableFilterOp /\ ~last.fatal /\ last.arg.level = 1) =>
    (pledged /\ promises = TableSet)

\* C5 witness: the main process, as root and with the NTS-KE pool configured,
\* has enabled the filter at level 1
C5_Witness ==
  /\ last.op = EnableFilterOp /\ ~last.fatal /\ last.arg.level = 1
  /\ context = SYS_MAIN_PROCESS /\ euid = RootUid /\ NtsPoolConfigured
  /\ pledged /\ "sendfd" \in promises /\ "settime" \in promises

\* C6: what the process may do never grows and a pledged process stays
\* pledged; the first installation takes something away; the set in force is
\* always one of the role's table sets; and an operation outside the set in
\* force does not succeed: the process is killed.
C6_RestrictionIsOneWay ==
  [][/\ Permitted' \subseteq Permitted
     /\ pledged => pledged'
     /\ (~pledged /\ pledged') => Permitted' # Permitted
     /\ pledged' =>
          \E root \in BOOLEAN :
            promises' = CapabilityTable(context, NtsPoolConfigured, root)
     /\ (last'.op = "syscall" /\ ~(last'.arg[1] \in Permitted)) =>
          (~alive' /\ last'.ret = <<"killed">>)
    ]_vars

\* C6 witness: the main process enabled the filter twice and was then
\* killed for setting the time, a promise it no longer holds
C6_Witness ==
  /\ context = SYS_MAIN_PROCESS
  /\ filter_calls = 2 /\ pledged
  /\ last.op = "syscall" /\ last.arg[1] = "settime"
  /\ last.ret = <<"killed">> /\ ~alive

EnableFilterStep ==
  last'.op = EnableFilterOp /\ filter_calls' = filter_calls + 1

\* C8: in the main process a level other than 1 ends the process before
\* pledge() is called and before "Loaded pledge filter" is logged.
C8_UnsupportedLevelIsFatal ==
  [][(/\ EnableFilterStep
      /\ context = SYS_MAIN_PROCESS
      /\ last'.arg.level # 1) =>
       /\ ~alive'
       /\ ~Called(last', "pledge")
       /\ ~Called(last', "LOG")
       /\ pledged' = pledged /\ promises' = promises
    ]_vars

\* C8 witness: the main process asked for level 2 and ended unpledged
C8_Witness ==
  /\ last.op = EnableFilterOp
  /\ context = SYS_MAIN_PROCESS /\ last.arg.level = 2
  /\ last.fatal /\ ~alive /\ ~pledged

\* C9: when the filter installation ends, the process is terminated or the
\* table's set for it is in force; "Loaded pledge filter" is logged only in
\* the second case.
C9_FailClosed ==
  [][EnableFilterStep =>
       /\ ~alive' \/ (pledged' /\ promises' = TableSet)
       /\ Called(last', "LOG") =>
            (alive' /\ pledged' /\ promises' = TableSet)
    ]_vars

\* C9 witness: pledge() failed and the process ended without a filter
C9_Witness ==
  /\ last.op = EnableFilterOp
  /\ \E i \in CallsOf(last, "pledge") : last.calls[i].rc = -1
  /\ ~alive /\ ~pledged /\ ~Called(last, "LOG")

\* C10: when PRV_AdjustFreq fails in read_frequency or set_frequency, the
\* only thing that follows is LOG_FATAL: the process ends, nothing is
\* returned, and no further PRV_AdjustFreq call (retry or read-back) is made.
C10_AdjustFreqFailureIsFatal ==
  last.op \in {"read_frequency", "set_frequency"} =>
    \A i \in CallsOf(last, "PRV_AdjustFreq") :
      last.calls[i].rc < 0 =>
        /\ ~alive /\ last.fatal
        /\ last.ret = NoRet
        /\ i = Len(last.calls) - 1
        /\ last.calls[Len(last.calls)].fn = "LOG_FATAL"

\* C10 witness: the set call of set_frequency failed
C10_Witness ==
  /\ last.op = "set_frequency"
  /\ last.calls[1].fn = "PRV_AdjustFreq" /\ last.calls[1].rc = -1
  /\ ~alive

\* C11: a status report whose PRV_SetTime failed does not end the process,
\* does not call the dispersion handlers, calls PRV_SetTime once and no more,
\* and leaves the driver registered and able to take the next status report.
C11_FailedCommitIsRecoverable ==
  [][CommitFailed(last') =>
       /\ alive' /\ ~last'.fatal
       /\ ~Called(last', "lcl_InvokeDispersionNotifyHandlers")
       /\ ~Called(last', "LOG_FATAL")
       /\ Cardinality(CallsOf(last', "PRV_SetTime")) = 1
       /\ registered' /\ pc' # "finalised"
    ]_vars

\* C11 witness: after an earlier commit attempt, the commit of a later
\* report has failed and the driver still takes status reports
C11_Witness ==
  /\ CommitFailed(last)
  /\ attempts = 2
  /\ Called(last, "DEBUG_LOG")
  /\ CallbacksCallable

\* exact arithmetic for the properties: the number n * 2^e, n a natural
Dy(n, e) == [n |-> n, e |-> e]

DyAt(a, e) == ShiftLeft(a.n, a.e - e)

DyAdd(a, b) ==
  Dy(NatAdd(DyAt(a, Min(a.e, b.e)), DyAt(b, Min(a.e, b.e))), Min(a.e, b.e))

DyLeq(a, b) == NatLeq(DyAt(a, Min(a.e, b.e)), DyAt(b, Min(a.e, b.e)))

DyAbsDiff(a, b) ==
  IF DyLeq(a, b)
    THEN Dy(NatSub(DyAt(b, Min(a.e, b.e)), DyAt(a, Min(a.e, b.e))),
            Min(a.e, b.e))
    ELSE Dy(NatSub(DyAt(a, Min(a.e, b.e)), DyAt(b, Min(a.e, b.e))),
            Min(a.e, b.e))

DyTimes(a, k) == Dy(MulAdd(a.n, k, 0), a.e)

DyShift(a, n) == Dy(a.n, a.e + n)

\* |x| for a double x, and |x - y| for doubles x and y
DoubleMagnitude(x) == Dy(x.man, x.exp)

DoubleDistance(x, y) ==
  IF x.neg = y.neg \/ x.man = <<>> \/ y.man = <<>>
    THEN DyAbsDiff(DoubleMagnitude(x), DoubleMagnitude(y))
    ELSE DyAdd(DoubleMagnitude(x), DoubleMagnitude(y))

\* one unit of the kernel value, in ppm: 1 / (1000 * 2^32), times FREQ_SCALE
ScaledUnit == Dy(<<1>>, 0 - FREQ_SHIFT)

\* |x - y| is at most one unit of the kernel value
WithinOneUnit(x, y) ==
  DyLeq(DyTimes(DoubleDistance(x, y), FREQ_SCALE), ScaledUnit)

\* |x - y| is at most one unit of the kernel value and |y| * 2^-51 (two
\* units in the last place of the double y, or less)
WithinOneUnitAndRounding(x, y) ==
  DyLeq(DyTimes(DoubleDistance(x, y), FREQ_SCALE),
        DyAdd(ScaledUnit,
              DyShift(DyTimes(DoubleMagnitude(y), FREQ_SCALE),
                      2 - SignificandBits)))

\* rec is a set_frequency() that returned, kfreq the kernel value after it,
\* and the kernel kept the value written
SetAndKept(rec, kfreq) ==
  /\ rec.op = "set_frequency" /\ ~rec.fatal
  /\ kfreq = rec.calls[1].arg

\* C12, as claimed: with a kernel that keeps the value written, what
\* set_frequency(ppm) returns, and what a read_frequency() right after it
\* returns, is within one unit of the kernel value, 1 / (1000 * 2^32) ppm,
\* of ppm.
C12_RoundTripWithinOneUnit ==
  [][/\ SetAndKept(last', kernel_freq') =>
          WithinOneUnit(last'.ret, last'.arg[1])
     /\ (/\ SetAndKept(last, kernel_freq)
         /\ last'.op = "read_frequency" /\ ~last'.fatal) =>
          WithinOneUnit(last'.ret, last.arg[1])
    ]_vars

\* C12, amended: with a kernel that keeps the value written, what
\* set_frequency(ppm) returns, and what a read_frequency() right after it
\* returns, differs from ppm by at most one unit of the kernel value plus
\* |ppm| * 2^-51, the rounding of the two double operations.
C12_RoundTripWithinUnitAndRounding ==
  [][/\ SetAndKept(last', kernel_freq') =>
          WithinOneUnitAndRounding(last'.ret, last'.arg[1])
     /\ (/\ SetAndKept(last, kernel_freq)
         /\ last'.op = "read_frequency" /\ ~last'.fatal) =>
          WithinOneUnitAndRounding(last'.ret, last.arg[1])
    ]_vars

\* C12 witness: set_frequency() returned, the kernel having kept the value
\* written, a frequency that is more than a unit of the kernel value away
\* from the one asked for
C12_Witness ==
  /\ SetAndKept(last, kernel_freq)
  /\ last.ret # last.arg[1]
  /\ ~WithinOneUnit(last.ret, last.arg[1])
  /\ WithinOneUnitAndRounding(last.ret, last.arg[1])

\* C13: reset_adjtime_offset() leaves the kernel with no correction, and a
\* second reset_adjtime_offset() right after it makes the same call and
\* changes nothing: the kernel's correction and the outcome are those of the
\* first.  (The function touches no variable of the driver.)
C13_ResetIsIdempotent ==
  [][(/\ last'.op = "SYS_OpenBSD_Initialise"
      /\ \E i \in CallsOf(last', "PRV_AdjustTime") : last'.calls[i].rc = 0) =>
       LET once == ResetAdjtimeOffset(adjtime_offset, TRUE)
           twice == ResetAdjtimeOffset(once.offset, TRUE)
       IN /\ adjtime_offset' = once.offset
          /\ once.offset = 0
          /\ twice = once
    ]_vars

\* C13 witness: reset_adjtime_offset() has run, called PRV_AdjustTime with a
\* zero delta, and the kernel has no correction left
C13_Witness ==
  /\ last.op = "SYS_OpenBSD_Initialise" /\ ~last.fatal
  /\ \E i \in CallsOf(last, "PRV_AdjustTime") :
       last.calls[i].arg = 0 /\ last.calls[i].rc = 0
  /\ adjtime_offset = 0

\* the names of the functions rec called, in order
CallOrder(rec) == [i \in 1..Len(rec.calls) |-> rec.calls[i].fn]

\* rec called fn and got rc back
Returned(rec, fn, rc) == \E i \in CallsOf(rec, fn) : rec.calls[i].rc = rc

\* C14: SYS_OpenBSD_Initialise() queries the clock (sysctl), clears the
\* kernel's remaining correction, records the raw time in last_rtc_sync and
\* registers the callbacks, in this order.  When the query or the reset
\* fails the process ends there: nothing after it is called, last_rtc_sync
\* is not set and nothing is registered.  The callbacks are never
\* registered with a correction left in the kernel.
C14_InitialiseInOrder ==
  [][/\ last'.op = "SYS_OpenBSD_Initialise" =>
          /\ ~last'.fatal =>
               /\ CallOrder(last') = <<"sysctl", "PRV_AdjustTime",
                                       "LCL_ReadRawTime",
                                       "SYS_Generic_CompleteFreqDriver">>
               /\ \A i \in 1..Len(last'.calls) : last'.calls[i].rc = 0
               /\ alive' /\ registered'
               /\ last_rtc_sync' = last'.calls[3].arg
          /\ Returned(last', "sysctl", -1) =>
               /\ CallOrder(last') = <<"sysctl", "LOG_FATAL">>
               /\ ~alive' /\ ~registered'
               /\ adjtime_offset' = adjtime_offset
               /\ last_rtc_sync' = last_rtc_sync
          /\ Returned(last', "PRV_AdjustTime", -1) =>
               /\ CallOrder(last') = <<"sysctl", "PRV_AdjustTime",
                                       "LOG_FATAL">>
               /\ ~alive' /\ ~registered'
               /\ last_rtc_sync' = last_rtc_sync
          /\ last'.fatal =>
               \/ Returned(last', "sysctl", -1)
               \/ Returned(last', "PRV_AdjustTime", -1)
     /\ registered' => adjtime_offset' = 0
     /\ (~registered /\ registered') =>
          (last'.op = "SYS_OpenBSD_Initialise" /\ Returned(last', "sysctl", 0))
    ]_vars

\* C14 witness: the reset failed with a correction left in the kernel; the
\* process has ended without a registered driver
C14_Witness ==
  /\ last.op = "SYS_OpenBSD_Initialise"
  /\ Returned(last, "PRV_AdjustTime", -1)
  /\ adjtime_offset # 0
  /\ ~alive /\ ~registered

\* C15: a synchronised status report with RTC synchronisation enabled whose
\* scheduler time is RTC_SYNC_INTERVAL or more away from last_rtc_sync, before
\* it or after it, attempts an RTC commit and moves last_rtc_sync to its
\* time; a report whose time lies before last_rtc_sync by less than
\* that leaves last_rtc_sync where it was, so that the time moving backwards
\* never stops later reports from committing.
C15_BackwardJumpCommits ==
  [][(/\ last'.op = "set_sync_status"
      /\ last'.arg.synchronised
      /\ cnf.rtcsync) =>
       /\ Abs(last'.arg.now - last_rtc_sync) >= RTC_SYNC_INTERVAL =>
            /\ CommitAttempted(last')
            /\ last_rtc_sync' = last'.arg.now
       /\ (/\ last'.arg.now < last_rtc_sync
           /\ last_rtc_sync - last'.arg.now < RTC_SYNC_INTERVAL) =>
            /\ ~CommitAttempted(last')
            /\ last_rtc_sync' = last_rtc_sync
    ]_vars

\* C15 witness: a commit has just been attempted by a report at time 0.  No
\* time is negative, so last_rtc_sync was RTC_SYNC_INTERVAL or more ahead of
\* the report: the scheduler time had moved backwards by an interval or more.
C15_Witness ==
  /\ CommitAttempted(last)
  /\ last.arg.now = 0
  /\ last_rtc_sync = 0
  /\ \A t \in Times : t >= 0

\* C16: a status report whose PRV_SetTime succeeded calls the dispersion
\* handlers exactly once, with |new_ts - ts| (never negative), where ts is
\* the raw time passed to PRV_SetTime and new_ts the raw time read right
\* after it; the call comes before the "rtc synchronised" log that follows
\* the assignment of last_rtc_sync, and last_rtc_sync becomes the scheduler
\* time of the report.
C16_DispersionOnceThenTimestamp ==
  [][(/\ last'.op = "set_sync_status"
      /\ Returned(last', "PRV_SetTime", 0)) =>
       LET c == last'.calls
           set == CHOOSE i \in CallsOf(last', "PRV_SetTime") : TRUE
       IN
         /\ CallsOf(last', "PRV_SetTime") = {set}
         /\ CallsOf(last', "lcl_InvokeDispersionNotifyHandlers") = {set + 2}
         /\ CallsOf(last', "LCL_ReadRawTime") = {set - 1, set + 1}
         /\ c[set].arg.ts = c[set - 1].arg
         /\ c[set + 2].arg = Abs(c[set + 1].arg - c[set].arg.ts)
         /\ c[set + 2].arg >= 0
         /\ Len(c) = set + 3
         /\ c[set + 3] = Call("DEBUG_LOG", "rtc synchronised", 0)
         /\ last_rtc_sync' = last'.arg.now
         /\ c[1] = Call("SCH_GetLastEventTime", last'.arg.now, 0)
    ]_vars

\* C16 witness: a commit succeeded with the second raw time before the
\* first, and both of them different from the scheduler time of the report
C16_Witness ==
  /\ last.op = "set_sync_status"
  /\ Returned(last, "PRV_SetTime", 0)
  /\ \E i \in CallsOf(last, "lcl_InvokeDispersionNotifyHandlers") :
       /\ last.calls[i].arg > 0
       /\ last.calls[i - 1].arg < last.calls[i - 3].arg
       /\ last.calls[i - 1].arg # last.arg.now
       /\ last.calls[i - 3].arg # last.arg.now
  /\ last_rtc_sync = last.arg.now

\* C17: set_frequency(ppm) first makes one PRV_AdjustFreq call that sets
\* the converted value, and only when that succeeded one PRV_AdjustFreq call
\* that gets the kernel's value; what it returns is the conversion of the
\* value the kernel holds after the set, whether or not that is the value
\* written.
C17_ReturnsKernelValue ==
  [][last'.op = "set_frequency" =>
       LET c == last'.calls IN
         /\ c[1].fn = "PRV_AdjustFreq"
         /\ c[1].arg = PpmToKernel(last'.arg[1])
         /\ c[1].rc = 0 =>
              /\ c[2].fn = "PRV_AdjustFreq" /\ c[2].arg = "get"
              /\ CallsOf(last', "PRV_AdjustFreq") = {1, 2}
         /\ c[1].rc # 0 => CallsOf(last', "PRV_AdjustFreq") = {1}
         /\ ~last'.fatal =>
              /\ Len(c) = 2
              /\ last'.ret = KernelToPpm(kernel_freq')
    ]_vars

\* C17 witness: the kernel holds another value than the one written, and
\* set_frequency() has returned the conversion of the value held, which is
\* neither the frequency asked for nor the conversion of the value written
C17_Witness ==
  /\ last.op = "set_frequency" /\ ~last.fatal
  /\ kernel_freq # last.calls[1].arg
  /\ last.ret = KernelToPpm(kernel_freq)
  /\ last.ret # KernelToPpm(last.calls[1].arg)
  /\ last.ret # last.arg[1]

\* the whole part of a
DyFloor(a) ==
  IF a.e >= 0 THEN ShiftLeft(a.n, a.e) ELSE ShiftRight(a.n, 0 - a.e)

DyLess(a, b) == ~DyLeq(b, a)

DyEqual(a, b) == DyLeq(a, b) /\ DyLeq(b, a)

\* |x| * 1000 * 2^32 for a double x, exactly
KernelUnitsOf(x) ==
  DyShift(DyTimes(DoubleMagnitude(x), FREQ_SCALE), FREQ_SHIFT)

\* the signs of the int64_t freq and of the double x are opposite
OppositeSigns(freq, x) ==
  /\ freq.mag # <<>> /\ x.man # <<>>
  /\ freq.neg = ~x.neg

\* freq is in the range of int64_t (and is not its least value)
FitsInt64(freq) == BitLength(freq.mag) <= 2 * FREQ_SHIFT - 1

\* the value set_frequency() wrote, and the frequency it was asked for
Written(rec) == rec.calls[1].arg

Asked(rec) == rec.arg[1]

\* rec is a callback that returned a frequency
ReturnedFrequency(rec) ==
  /\ rec.op \in {"read_frequency", "set_frequency"}
  /\ ~rec.fatal

\* C18, as claimed: the value set_frequency(ppm) writes is
\* -ppm * 1000 * 2^32 without its fraction, of the sign opposite to that of
\* ppm (zero for zero) and in the range of int64_t; the callbacks return the
\* kernel value negated and divided by 1000 * 2^32.
C18_WrittenIsExactProduct ==
  [][/\ last'.op = "set_frequency" =>
          /\ Written(last').mag = DyFloor(KernelUnitsOf(Asked(last')))
          /\ IF Asked(last').man = <<>>
               THEN Written(last') = Int64Zero
               ELSE OppositeSigns(Written(last'), Asked(last'))
          /\ FitsInt64(Written(last'))
     /\ ReturnedFrequency(last') =>
          /\ DyEqual(KernelUnitsOf(last'.ret), Dy(kernel_freq'.mag, 0))
          /\ \/ kernel_freq' = Int64Zero
             \/ OppositeSigns(kernel_freq', last'.ret)
    ]_vars

\* C18, amended: the value set_frequency(ppm) writes is the double nearest
\* to -ppm * 1000 * 2^32 without its fraction: it is less than
\* 1 + |ppm| * 1000 * 2^32 * 2^-53 away from -ppm * 1000 * 2^32; it is of
\* the sign opposite to that of ppm, or zero, which it is for zero and
\* otherwise only where |ppm| * 1000 * 2^32 is below 1; and it is in the
\* range of int64_t.  The callbacks return a double of the sign opposite to
\* that of the kernel value (zero for zero) that is at most
\* |kernel value| * 2^-51 / (1000 * 2^32) away from the kernel value negated
\* and divided by 1000 * 2^32.
C18_WrittenIsRoundedProduct ==
  [][/\ last'.op = "set_frequency" =>
          LET exact == KernelUnitsOf(Asked(last'))
              written == Dy(Written(last').mag, 0)
          IN
          /\ DyLess(DyAbsDiff(written, exact),
                    DyAdd(Dy(<<1>>, 0), DyShift(exact, 0 - SignificandBits)))
          /\ \/ Written(last') = Int64Zero
             \/ OppositeSigns(Written(last'), Asked(last'))
          /\ Asked(last').man = <<>> => Written(last') = Int64Zero
          /\ Written(last') = Int64Zero => DyLess(exact, Dy(<<1>>, 0))
          /\ FitsInt64(Written(last'))
     /\ ReturnedFrequency(last') =>
          /\ DyLeq(DyAbsDiff(KernelUnitsOf(last'.ret),
                             Dy(kernel_freq'.mag, 0)),
                   Dy(kernel_freq'.mag, 2 - SignificandBits))
          /\ IF kernel_freq' = Int64Zero
               THEN last'.ret.man = <<>>
               ELSE OppositeSigns(kernel_freq', last'.ret)
    ]_vars

\* C18 witness: set_frequency() has written a value of more than 53 bits
\* that is not -ppm * 1000 * 2^32 without its fraction, and has returned a
\* frequency that is not exactly the kernel value over 1000 * 2^32
C18_Witness ==
  /\ last.op = "set_frequency" /\ ~last.fatal
  /\ BitLength(Written(last).mag) > SignificandBits
  /\ Written(last).mag # DyFloor(KernelUnitsOf(Asked(last)))
  /\ OppositeSigns(Written(last), Asked(last))
  /\ ~DyEqual(KernelUnitsOf(last.ret), Dy(kernel_freq.mag, 0))

\* C19: SYS_OpenBSD_DropRoot() calls PRV_StartHelper() in the main process
\* and in no other, once, while the process is still root and before the
\* one UTI_DropRoot() call; a helper process only drops root.
C19_HelperStartedByMainBeforeDrop ==
  [][last'.op = "SYS_OpenBSD_DropRoot" =>
       /\ Called(last', "PRV_StartHelper") <=> context = SYS_MAIN_PROCESS
       /\ context = SYS_MAIN_PROCESS =>
            /\ CallsOf(last', "PRV_StartHelper") = {1}
            /\ CallsOf(last', "UTI_DropRoot") = {2}
            /\ euid = RootUid
       /\ context # SYS_MAIN_PROCESS =>
            last'.calls = <<Call("UTI_DropRoot", last'.arg[1], 0)>>
       /\ euid' = last'.arg[1] /\ euid' # RootUid
       /\ context' = context
    ]_vars

\* C19 witness: a helper process has dropped root and started no helper
C19_Witness ==
  /\ last.op = "SYS_OpenBSD_DropRoot"
  /\ context \in {SYS_PRIVOPS_HELPER, SYS_NTSKE_HELPER}
  /\ ~Called(last, "PRV_StartHelper")
  /\ Called(last, "UTI_DropRoot")
  /\ euid \in UserUids

\* C20: clock_settime() for a clock other than CLOCK_REALTIME returns -1,
\* does not call settimeofday() and leaves the time of day as it was; for
\* CLOCK_REALTIME it calls settimeofday() once and returns what that
\* returned, the time of day changing only when that was 0.
C20_OnlyRealtimeIsSet ==
  [][last'.op = "clock_settime" =>
       IF last'.arg.clock # CLOCK_REALTIME
         THEN /\ last'.ret = -1
              /\ ~Called(last', "settimeofday")
              /\ system_time' = system_time
         ELSE /\ Cardinality(CallsOf(last', "settimeofday")) = 1
              /\ \A i \in CallsOf(last', "settimeofday") :
                   /\ last'.ret = last'.calls[i].rc
                   /\ system_time' =
                        IF last'.calls[i].rc = 0 THEN last'.calls[i].arg
                                                 ELSE system_time
    ]_vars

\* C20 witness: clock_settime() for CLOCK_MONOTONIC has returned -1 and
\* the time of day, set earlier, is not the time it was given
C20_Witness ==
  /\ last.op = "clock_settime"
  /\ last.arg.clock = CLOCK_MONOTONIC
  /\ last.ret = -1
  /\ ~Called(last, "settimeofday")
  /\ system_time # Timeval(0, 0)
  /\ system_time # TimespecToTimeval(last.arg.now)

====
